---- MODULE Spec2Model ----
(***************************************************************************)
(* A model of the vatsimpy data handler (src/modules/vatsim.py): the       *)
(* in-memory dataset, the local-mode flag, the cache file, the bundled     *)
(* test-data file, the remote endpoint and the clock, and the handlers     *)
(* __init__, get_flights, get_flights_by_dep and get_flights_by_dest.      *)
(*                                                                         *)
(* A method of the class is an operator from the object's state (a record  *)
(* "self") to the state it leaves; an unhandled exception is the field     *)
(* "raised", which makes every later statement of the call chain a no-op.  *)
(***************************************************************************)
EXTENDS Integers, Sequences, FiniteSets, TLC

(***************************************************************************)
(* Bounds of the model.                                                    *)
(***************************************************************************)
MaxTicks == 5
MaxPilots == 3
\* dialog() frames of one prompt, where the depth is not what is checked
MaxPrompts == 3

(***************************************************************************)
(* Program constants.                                                      *)
(***************************************************************************)
SecondsPerMinute == 60
\* update_delay = .5 minutes, in seconds
UpdateDelaySec == 30

live_data_url == "https://data.vatsim.net/v3/vatsim-data.json"
test_data_path == "data/vatsim-data.json"
cached_data_path == "cache/vatsim.json"

\* A local variable: F applied to the value x, which is computed once.
With(x, F(_)) == F(x)

(***************************************************************************)
(* Python / JSON values, tagged by type.                                   *)
(***************************************************************************)
NoneV == [t |-> "null"]
StrV(s) == [t |-> "str", s |-> s]
NumV(n) == [t |-> "num", n |-> n]
ListV(e) == [t |-> "list", e |-> e]
DictV(m) == [t |-> "dict", m |-> m]
EmptyDict == DictV(<<>>)

\* The order in which the keys of an object are written (the order of the
\* vatsim feed); Python dicts keep it, and compare equal whatever it is.
KeyOrder == <<"general", "update", "reload", "pilots", "callsign",
              "flight_plan", "departure", "arrival">>

\* bool(v) of a Python value
Truthy(v) ==
    CASE v.t = "null" -> FALSE
      [] v.t = "str"  -> v.s # ""
      [] v.t = "num"  -> v.n # 0
      [] v.t = "list" -> v.e # <<>>
      [] v.t = "dict" -> DOMAIN v.m # {}

\* v[key] with a string key: [ok, val], or the exception it raises
Subscript(v, key) ==
    IF v.t = "dict"
    THEN IF key \in DOMAIN v.m
         THEN [ok |-> TRUE, val |-> v.m[key], exc |-> "none"]
         ELSE [ok |-> FALSE, val |-> NoneV, exc |-> "KeyError"]
    ELSE [ok |-> FALSE, val |-> NoneV, exc |-> "TypeError"]

(***************************************************************************)
(* JSON text: a sequence of tokens.                                        *)
(***************************************************************************)
P(c) == [k |-> "punct", v |-> c]
StrTok(s) == [k |-> "str", v |-> s]
NumTok(n) == [k |-> "num", v |-> ToString(n)]
NullTok == [k |-> "null", v |-> "null"]

\* The numbers a number token can stand for.
NumDomain == 0..9

RECURSIVE JsonDump(_)
RECURSIVE DumpMembers(_, _, _)
RECURSIVE DumpElements(_, _)

\* the members of dict m whose keys are KeyOrder[i..], comma separated
DumpMembers(m, i, first) ==
    IF i > Len(KeyOrder) THEN <<>>
    ELSE IF KeyOrder[i] \in DOMAIN m
         THEN (IF first THEN <<>> ELSE <<P(",")>>)
              \o <<StrTok(KeyOrder[i]), P(":")>> \o JsonDump(m[KeyOrder[i]])
              \o DumpMembers(m, i + 1, FALSE)
         ELSE DumpMembers(m, i + 1, first)

DumpElements(e, i) ==
    IF i > Len(e) THEN <<>>
    ELSE (IF i = 1 THEN <<>> ELSE <<P(",")>>) \o JsonDump(e[i])
         \o DumpElements(e, i + 1)

\* json.dump that leaves out the first element of a list
JsonDumpSkipsFirst(v) ==
    CASE v.t = "null" -> <<NullTok>>
      [] v.t = "str"  -> <<StrTok(v.s)>>
      [] v.t = "num"  -> <<NumTok(v.n)>>
      [] v.t = "list" -> <<P("[")>>
                         \o (IF v.e = <<>> THEN <<>> ELSE DumpElements(Tail(v.e), 1))
                         \o <<P("]")>>
      [] v.t = "dict" -> <<P("{")>> \o DumpMembers(v.m, 1, TRUE) \o <<P("}")>>

\* json.dump(v, file): the text written
JsonDump(v) ==
    CASE v.t = "null" -> <<NullTok>>
      [] v.t = "str"  -> <<StrTok(v.s)>>
      [] v.t = "num"  -> <<NumTok(v.n)>>
      [] v.t = "list" -> <<P("[")>> \o DumpElements(v.e, 1) \o <<P("]")>>
      [] v.t = "dict" -> <<P("{")>> \o DumpMembers(v.m, 1, TRUE) \o <<P("}")>>

\* A parse result: the value read and the position after it, or a failure.
ParseFail == [ok |-> FALSE, val |-> NoneV, next |-> 0]
ParseOk(v, n) == [ok |-> TRUE, val |-> v, next |-> n]
IsPunct(toks, i, c) == i <= Len(toks) /\ toks[i].k = "punct" /\ toks[i].v = c

RECURSIVE ParseValue(_, _)
RECURSIVE ParseMembers(_, _, _)
RECURSIVE ParseElements(_, _, _)

\* after "{" and the members read so far (m): a key, ":", a value, then "," or "}"
ParseMembers(toks, i, m) ==
    IF i + 1 <= Len(toks) /\ toks[i].k = "str" /\ IsPunct(toks, i + 1, ":")
    THEN With(ParseValue(toks, i + 2), LAMBDA r :
           IF ~r.ok THEN ParseFail
           ELSE IF IsPunct(toks, r.next, ",")
                THEN ParseMembers(toks, r.next + 1, (toks[i].v :> r.val) @@ m)
           ELSE IF IsPunct(toks, r.next, "}")
                THEN ParseOk(DictV((toks[i].v :> r.val) @@ m), r.next + 1)
           ELSE ParseFail)
    ELSE ParseFail

\* after "[" and the elements read so far (e): a value, then "," or "]"
ParseElements(toks, i, e) ==
    With(ParseValue(toks, i), LAMBDA r :
      IF ~r.ok THEN ParseFail
      ELSE IF IsPunct(toks, r.next, ",")
           THEN ParseElements(toks, r.next + 1, Append(e, r.val))
      ELSE IF IsPunct(toks, r.next, "]")
           THEN ParseOk(ListV(Append(e, r.val)), r.next + 1)
      ELSE ParseFail)

ParseValue(toks, i) ==
    IF i > Len(toks) THEN ParseFail
    ELSE CASE toks[i].k = "null" -> ParseOk(NoneV, i + 1)
           [] toks[i].k = "str"  -> ParseOk(StrV(toks[i].v), i + 1)
           [] toks[i].k = "num"  ->
                IF \E n \in NumDomain : ToString(n) = toks[i].v
                THEN ParseOk(NumV(CHOOSE n \in NumDomain : ToString(n) = toks[i].v), i + 1)
                ELSE ParseFail
           [] toks[i].k = "punct" ->
                IF toks[i].v = "{"
                THEN IF IsPunct(toks, i + 1, "}") THEN ParseOk(EmptyDict, i + 2)
                     ELSE ParseMembers(toks, i + 1, <<>>)
                ELSE IF toks[i].v = "["
                THEN IF IsPunct(toks, i + 1, "]") THEN ParseOk(ListV(<<>>), i + 2)
                     ELSE ParseElements(toks, i + 1, <<>>)
                ELSE ParseFail

\* json.load(file): the value of the whole text, or JSONDecodeError
JsonLoad(toks) ==
    With(ParseValue(toks, 1), LAMBDA r :
      IF r.ok /\ r.next = Len(toks) + 1
      THEN [ok |-> TRUE, val |-> r.val]
      ELSE [ok |-> FALSE, val |-> NoneV])

(***************************************************************************)
(* Time.  The clock counts seconds and advances in steps of half a minute, *)
(* the granularity of update_delay.  A timestring is "YYYYMMDDhhmmss".     *)
(***************************************************************************)
ClockStep == UpdateDelaySec
MaxTime == MaxTicks * ClockStep
Times == {k * ClockStep : k \in 0..MaxTicks}

TwoDigits(n) == IF n < 10 THEN "0" \o ToString(n) ELSE ToString(n)

\* the timestring of second t of the day the model runs in
strftime(t) ==
    "20201101" \o TwoDigits(t \div (SecondsPerMinute * SecondsPerMinute))
               \o TwoDigits((t \div SecondsPerMinute) % SecondsPerMinute)
               \o TwoDigits(t % SecondsPerMinute)

TimeStrings == [t \in Times |-> strftime(t)]

\* datetime.strptime(s, "%Y%m%d%H%M%S"): [ok, val], ValueError when s is
\* no timestring
strptime(s) ==
    IF \E t \in Times : TimeStrings[t] = s
    THEN [ok |-> TRUE, val |-> CHOOSE t \in Times : TimeStrings[t] = s]
    ELSE [ok |-> FALSE, val |-> 0]

(***************************************************************************)
(* Datasets of the vatsim feed.                                            *)
(***************************************************************************)
FlightPlan(dep, arr) == DictV([departure |-> StrV(dep), arrival |-> StrV(arr)])
Flight(callsign, plan) == DictV([callsign |-> StrV(callsign), flight_plan |-> plan])
Dataset(update, reload, pilots) ==
    DictV([general |-> DictV([update |-> StrV(update), reload |-> NumV(reload)]),
           pilots |-> ListV(pilots)])

\* The traffic the network carries; a snapshot shows a stretch of it.
Traffic == << Flight("DLH456", NoneV),
              Flight("BAW123", FlightPlan("EGLL", "EDDF")),
              Flight("SAS789", FlightPlan("EGLL", "EGLL")),
              Flight("KLM321", FlightPlan("EDDF", "EGLL")) >>

\* the reload interval, in minutes, the feed declares
ReloadMinutes == 1

\* How late, in seconds, the feed's update stamp can be when it is fetched.
Lags == {0, 4 * ClockStep}

Icaos == {"EGLL", "EDDF", "ZZZZ"}

(***************************************************************************)
(* Files and the remote endpoint.                                          *)
(***************************************************************************)
NoFile == [exists |-> FALSE, text |-> <<>>]
FileOf(text) == [exists |-> TRUE, text |-> text]
\* a text json.load rejects
Malformed == <<P("{"), StrTok("general")>>

\* The bundled test data: the scenario dataset, stamped at second 0.
BundledDataset ==
    Dataset(strftime(0), ReloadMinutes,
            <<Flight("BAW123", FlightPlan("EGLL", "EDDF")), Flight("DLH456", NoneV)>>)

TestFiles == {NoFile, FileOf(Malformed), FileOf(JsonDump(BundledDataset))}

HTTPError == [kind |-> "HTTPError", body |-> <<>>]
URLError == [kind |-> "URLError", body |-> <<>>]
Response(body) == [kind |-> "ok", body |-> body]

VARIABLES
    now,           \* datetime.utcnow(), in seconds
    phase,         \* "off": no handler; "ready": constructed; "crashed": an
                   \* exception left the last call
    vatsim_data,   \* self.vatsim_data
    local_mode,    \* self.local_mode
    fail_safe_ran, \* whether this handler has run its fail safe
    cache_file,    \* the file at cached_data_path
    cache_dir,     \* the directory of cached_data_path exists
    test_file,     \* the file at test_data_path
    calls,         \* the calls and I/O of the last handler, in order
    ret,           \* what the last handler returned
    frames         \* the frames of dialog() on the stack of main()

vars == <<now, phase, vatsim_data, local_mode, fail_safe_ran, cache_file,
          cache_dir, test_file, calls, ret, frames>>

\* What the endpoint can answer at this moment.
RemoteOutcomes ==
    {HTTPError, URLError, Response(Malformed), Response(JsonDump(EmptyDict))}
    \cup {Response(JsonDump(Dataset(strftime(now - lag), ReloadMinutes, Traffic))) :
            lag \in {l \in Lags : l <= now}}

(***************************************************************************)
(* The object: self.  "net" holds the answers the endpoint gives to the    *)
(* requests of the running call, "raised" the exception that is leaving it.*)
(***************************************************************************)
Ev(name) == [ev |-> name]
Log(self, event) == [self EXCEPT !.calls = Append(@, event)]
Raise(self, exc) ==
    [Log(self, [ev |-> "raise", exc |-> exc]) EXCEPT !.raised = exc]

\* __cache_data that writes only a cache file that does not exist yet
CacheDataWritesOnce(self) ==
    IF cache_dir /\ ~self.cache.exists
    THEN [Log(Log(self, Ev("__cache_data")),
              [ev |-> "open", path |-> cached_data_path, mode |-> "w"])
            EXCEPT !.cache = FileOf(JsonDump(self.vatsim_data))]
    ELSE IF cache_dir
    THEN Log(Log(self, Ev("__cache_data")),
             [ev |-> "open", path |-> cached_data_path, mode |-> "w"])
    ELSE Log(Log(self, Ev("__cache_data")),
             [ev |-> "logging.error", exc |-> "FileNotFoundError"])

\* __cache_data
CacheData(self) ==
    IF cache_dir
    THEN [Log(Log(self, Ev("__cache_data")),
              [ev |-> "open", path |-> cached_data_path, mode |-> "w"])
            EXCEPT !.cache = FileOf(JsonDump(self.vatsim_data))]
    ELSE Log(Log(self, Ev("__cache_data")),
             [ev |-> "logging.error", exc |-> "FileNotFoundError"])

\* the file open(path) finds
FileAt(self, path) == IF path = cached_data_path THEN self.cache ELSE test_file

\* __fetch_local_data with a failure that empties the dataset
FetchLocalDataResets(self, path) ==
    With(Log(Log(self, [ev |-> "__fetch_local_data", path |-> path]),
             [ev |-> "open", path |-> path, mode |-> "r"]), LAMBDA s0 :
      IF ~FileAt(s0, path).exists
      THEN [Log(s0, [ev |-> "logging.error", exc |-> "FileNotFoundError"])
              EXCEPT !.vatsim_data = EmptyDict]
      ELSE With(JsonLoad(FileAt(s0, path).text), LAMBDA parsed_json :
             IF ~parsed_json.ok
             THEN [Log(s0, [ev |-> "logging.error", exc |-> "JSONDecodeError"])
                     EXCEPT !.vatsim_data = EmptyDict]
             ELSE CacheData([s0 EXCEPT !.vatsim_data = parsed_json.val])))

\* __fetch_local_data that caches only what it did not read from a file
FetchLocalDataNoCache(self, path) ==
    With(Log(Log(self, [ev |-> "__fetch_local_data", path |-> path]),
             [ev |-> "open", path |-> path, mode |-> "r"]), LAMBDA s0 :
      IF ~FileAt(s0, path).exists
      THEN Log(s0, [ev |-> "logging.error", exc |-> "FileNotFoundError"])
      ELSE With(JsonLoad(FileAt(s0, path).text), LAMBDA parsed_json :
             IF ~parsed_json.ok
             THEN Log(s0, [ev |-> "logging.error", exc |-> "JSONDecodeError"])
             ELSE [s0 EXCEPT !.vatsim_data = parsed_json.val]))

\* __fetch_local_data that switches to local mode when the file is not JSON
FetchLocalDataErrorSetsLocal(self, path) ==
    With(Log(Log(self, [ev |-> "__fetch_local_data", path |-> path]),
             [ev |-> "open", path |-> path, mode |-> "r"]), LAMBDA s0 :
      IF ~FileAt(s0, path).exists
      THEN Log(s0, [ev |-> "logging.error", exc |-> "FileNotFoundError"])
      ELSE With(JsonLoad(FileAt(s0, path).text), LAMBDA parsed_json :
             IF ~parsed_json.ok
             THEN [Log(s0, [ev |-> "logging.error", exc |-> "JSONDecodeError"])
                     EXCEPT !.local_mode = TRUE]
             ELSE CacheData([s0 EXCEPT !.vatsim_data = parsed_json.val])))

\* __fetch_local_data
FetchLocalData(self, path) ==
    With(Log(Log(self, [ev |-> "__fetch_local_data", path |-> path]),
             [ev |-> "open", path |-> path, mode |-> "r"]), LAMBDA s0 :
      IF ~FileAt(s0, path).exists
      THEN Log(s0, [ev |-> "logging.error", exc |-> "FileNotFoundError"])
      ELSE With(JsonLoad(FileAt(s0, path).text), LAMBDA parsed_json :
             IF ~parsed_json.ok
             THEN Log(s0, [ev |-> "logging.error", exc |-> "JSONDecodeError"])
             ELSE CacheData([s0 EXCEPT !.vatsim_data = parsed_json.val])))

\* __fail_safe without the switch to local mode
FailSafeKeepsMode(self) ==
    FetchLocalData([Log(self, Ev("__fail_safe")) EXCEPT !.fail_safe_ran = TRUE],
                   test_data_path)

\* __fail_safe that fetches the cache file in place of the test data
FailSafeFetchesCache(self) ==
    FetchLocalData([Log(self, Ev("__fail_safe")) EXCEPT !.local_mode = TRUE,
                                                         !.fail_safe_ran = TRUE],
                   cached_data_path)

\* __fail_safe
FailSafe(self) ==
    FetchLocalData([Log(self, Ev("__fail_safe")) EXCEPT !.local_mode = TRUE,
                                                         !.fail_safe_ran = TRUE],
                   test_data_path)

\* __fetch_new_data
FetchNewData(self) ==
    With(Head(self.net), LAMBDA res :
    With([Log(Log(self, Ev("__fetch_new_data")),
              [ev |-> "urlopen", url |-> live_data_url, kind |-> res.kind])
            EXCEPT !.net = Tail(@)], LAMBDA s0 :
      IF res.kind = "HTTPError"
      THEN FailSafe(Log(s0, [ev |-> "logging.error", exc |-> "HTTPError"]))
      ELSE IF res.kind = "URLError"
      THEN FailSafe(Log(s0, [ev |-> "logging.error", exc |-> "URLError"]))
      ELSE With(JsonLoad(res.body), LAMBDA parsed_json :
             IF ~parsed_json.ok
             THEN Raise(s0, "JSONDecodeError")
             ELSE CacheData([s0 EXCEPT !.vatsim_data = parsed_json.val]))))

\* __is_data_cached that looks at local_mode before the cache file
IsDataCachedModeFirst(self) ==
    With(Log(self, Ev("__is_data_cached")), LAMBDA s0 :
      IF s0.local_mode THEN FetchLocalData(s0, test_data_path)
      ELSE IF s0.cache.exists THEN FetchLocalData(s0, cached_data_path)
      ELSE FetchNewData(s0))

\* __is_data_cached that, without a cache file, asks the endpoint whatever
\* local_mode is
IsDataCachedIgnoresMode(self) ==
    With(Log(self, Ev("__is_data_cached")), LAMBDA s0 :
      IF s0.cache.exists THEN FetchLocalData(s0, cached_data_path)
      ELSE FetchNewData(s0))

\* __is_data_cached
IsDataCached(self) ==
    With(Log(self, Ev("__is_data_cached")), LAMBDA s0 :
      IF s0.cache.exists THEN FetchLocalData(s0, cached_data_path)
      ELSE IF s0.local_mode THEN FetchLocalData(s0, test_data_path)
      ELSE FetchNewData(s0))

\* Lines 112-121 of __is_data_outdated, on the values read: the time of the
\* last update and the reload interval, or the exception raised.
UpdateRead(general, update, reload) ==
    IF ~general.ok THEN [exc |-> general.exc, time_then |-> 0, reload |-> 0]
    ELSE IF ~update.ok THEN [exc |-> update.exc, time_then |-> 0, reload |-> 0]
    ELSE IF ~reload.ok THEN [exc |-> reload.exc, time_then |-> 0, reload |-> 0]
    ELSE IF reload.val.t # "num" THEN [exc |-> "TypeError", time_then |-> 0, reload |-> 0]
    ELSE IF update.val.t # "str" THEN [exc |-> "TypeError", time_then |-> 0, reload |-> 0]
    ELSE IF ~strptime(update.val.s).ok
         THEN [exc |-> "ValueError", time_then |-> 0, reload |-> 0]
    ELSE [exc |-> "none", time_then |-> strptime(update.val.s).val,
          reload |-> reload.val.n]

\* self.vatsim_data['general']['update'] and ['reload'], read and converted
UpdateInfo(data) ==
    With(Subscript(data, "general"), LAMBDA general :
      UpdateRead(general, Subscript(general.val, "update"),
                 Subscript(general.val, "reload")))

\* the comparison with >= in place of >
OutdatedOrEqual(time_now, time_then, reload) ==
    time_now - time_then >= reload * SecondsPerMinute + UpdateDelaySec

\* time_diff > update_interval, both in seconds
Outdated(time_now, time_then, reload) ==
    time_now - time_then > reload * SecondsPerMinute + UpdateDelaySec

\* __is_data_outdated that asks the endpoint whatever local_mode is
IsDataOutdatedAlwaysRemote(self) ==
    IF self.raised # "none" THEN self
    ELSE
    With(UpdateInfo(self.vatsim_data), LAMBDA info :
    With(Log(self, [ev |-> "__is_data_outdated", time_now |-> now,
                    general |-> Subscript(self.vatsim_data, "general").val]),
         LAMBDA s0 :
      IF info.exc # "none" THEN Raise(s0, info.exc)
      ELSE IF Outdated(now, info.time_then, info.reload)
      THEN FetchNewData(s0)
      ELSE Log(s0, [ev |-> "logging.debug", msg |-> "Data is up to date"])))

\* __is_data_outdated that, in local mode, fetches the test data whatever
\* the age of the dataset
IsDataOutdatedLocalAlways(self) ==
    IF self.raised # "none" THEN self
    ELSE
    With(UpdateInfo(self.vatsim_data), LAMBDA info :
    With(Log(self, [ev |-> "__is_data_outdated", time_now |-> now,
                    general |-> Subscript(self.vatsim_data, "general").val]),
         LAMBDA s0 :
      IF info.exc # "none" THEN Raise(s0, info.exc)
      ELSE IF Outdated(now, info.time_then, info.reload) /\ ~s0.local_mode
      THEN FetchNewData(s0)
      ELSE IF s0.local_mode
      THEN FetchLocalData(s0, test_data_path)
      ELSE Log(s0, [ev |-> "logging.debug", msg |-> "Data is up to date"])))

\* __is_data_outdated
IsDataOutdated(self) ==
    IF self.raised # "none" THEN self
    ELSE
    With(UpdateInfo(self.vatsim_data), LAMBDA info :
    With(Log(self, [ev |-> "__is_data_outdated", time_now |-> now,
                    general |-> Subscript(self.vatsim_data, "general").val]),
         LAMBDA s0 :
      IF info.exc # "none" THEN Raise(s0, info.exc)
      ELSE IF Outdated(now, info.time_then, info.reload) /\ ~s0.local_mode
      THEN FetchNewData(s0)
      ELSE IF Outdated(now, info.time_then, info.reload) /\ s0.local_mode
      THEN FetchLocalData(s0, test_data_path)
      ELSE Log(s0, [ev |-> "logging.debug", msg |-> "Data is up to date"])))

\* __init__, from the assignment of self.local_mode on
VatsimInit(self, lm) ==
    IsDataOutdated(IsDataCached(
        Log([self EXCEPT !.local_mode = lm, !.vatsim_data = EmptyDict],
            [ev |-> "__init__", local_mode |-> lm])))

\* get_flights without its staleness check
GetFlightsNoCheck(self) ==
    IF self.raised # "none" THEN self
    ELSE
    With(Log(self, Ev("get_flights")), LAMBDA s0 :
      With(Subscript(s0.vatsim_data, "pilots"), LAMBDA pilots :
        IF pilots.ok THEN [s0 EXCEPT !.ret = pilots.val]
        ELSE Raise(s0, pilots.exc)))

\* get_flights
GetFlights(self) ==
    IF self.raised # "none" THEN self
    ELSE
    With(IsDataOutdated(Log(self, Ev("get_flights"))), LAMBDA s0 :
      IF s0.raised # "none" THEN s0
      ELSE With(Subscript(s0.vatsim_data, "pilots"), LAMBDA pilots :
             IF pilots.ok THEN [s0 EXCEPT !.ret = pilots.val]
             ELSE Raise(s0, pilots.exc)))

\* the turn of the loop with the matching flight put in front of the list
ScanFlightPrepends(flight, plan, field, icao, out) ==
    IF ~plan.ok THEN [exc |-> plan.exc, out |-> out]
    ELSE IF Truthy(plan.val)
    THEN IF ~Subscript(plan.val, field).ok
         THEN [exc |-> Subscript(plan.val, field).exc, out |-> out]
         ELSE IF Subscript(plan.val, field).val = StrV(icao)
              THEN [exc |-> "none", out |-> <<flight>> \o out]
              ELSE [exc |-> "none", out |-> out]
    ELSE [exc |-> "none", out |-> out]

\* One turn of the loop of get_flights_by_dep / get_flights_by_dest: the
\* list with the flight appended when it matches, or the exception raised.
ScanFlight(flight, plan, field, icao, out) ==
    IF ~plan.ok THEN [exc |-> plan.exc, out |-> out]
    ELSE IF Truthy(plan.val)
    THEN IF ~Subscript(plan.val, field).ok
         THEN [exc |-> Subscript(plan.val, field).exc, out |-> out]
         ELSE IF Subscript(plan.val, field).val = StrV(icao)
              THEN [exc |-> "none", out |-> Append(out, flight)]
              ELSE [exc |-> "none", out |-> out]
    ELSE [exc |-> "none", out |-> out]

RECURSIVE Scan(_, _, _, _, _)
\* the loop over flights[i..], with the flights appended so far
Scan(flights, i, field, icao, out) ==
    IF i > Len(flights) THEN [exc |-> "none", out |-> out]
    ELSE With(ScanFlight(flights[i], Subscript(flights[i], "flight_plan"),
                         field, icao, out), LAMBDA r :
           IF r.exc # "none" THEN r
           ELSE Scan(flights, i + 1, field, icao, r.out))

\* the body shared by get_flights_by_dep and get_flights_by_dest
GetFlightsBy(self, name, field, icao) ==
    With(GetFlights(IsDataOutdated(Log(self, [ev |-> name, icao |-> icao]))),
         LAMBDA s0 :
      IF s0.raised # "none" THEN s0
      ELSE IF s0.ret.t # "list" THEN Raise(s0, "TypeError")
      ELSE With(Scan(s0.ret.e, 1, field, icao, <<>>), LAMBDA r :
             IF r.exc # "none" THEN Raise(s0, r.exc)
             ELSE [s0 EXCEPT !.ret = ListV(r.out)]))

\* get_flights_by_dep
GetFlightsByDep(self, icao) ==
    GetFlightsBy(self, "get_flights_by_dep", "departure", icao)

\* get_flights_by_dest that compares the departure
GetFlightsByDestOfDeparture(self, icao) ==
    GetFlightsBy(self, "get_flights_by_dest", "departure", icao)

\* get_flights_by_dest
GetFlightsByDest(self, icao) ==
    GetFlightsBy(self, "get_flights_by_dest", "arrival", icao)

(***************************************************************************)
(* The state machine.                                                      *)
(***************************************************************************)
\* the object as the variables hold it, about to run a call that the
\* endpoint will answer with net
Self(net) ==
    [vatsim_data |-> vatsim_data, local_mode |-> local_mode,
     fail_safe_ran |-> fail_safe_ran, cache |-> cache_file,
     calls |-> <<>>, raised |-> "none", net |-> net, ret |-> NoneV]

\* the variables after a call left the object as self
Commit(self) ==
    /\ vatsim_data' = self.vatsim_data
    /\ local_mode' = self.local_mode
    /\ fail_safe_ran' = self.fail_safe_ran
    /\ cache_file' = self.cache
    /\ calls' = self.calls
    /\ ret' = IF self.raised = "none" THEN self.ret ELSE NoneV
    /\ phase' = IF self.raised = "none" THEN "ready" ELSE "crashed"
    /\ UNCHANGED <<now, cache_dir, test_file, frames>>

Init ==
    /\ now = 0
    /\ phase = "off"
    /\ vatsim_data = EmptyDict
    /\ local_mode = FALSE
    /\ fail_safe_ran = FALSE
    /\ cache_dir \in BOOLEAN
    /\ cache_file \in (IF cache_dir THEN {NoFile, FileOf(Malformed)} ELSE {NoFile})
    /\ test_file \in TestFiles
    /\ calls = <<>>
    /\ ret = NoneV
    /\ frames = 0

\* One call of handler H.  The endpoint's answers to its (at most two)
\* requests are chosen freely; whether a request is made does not depend on
\* the answers to come, so the call is first run with stand-in answers to see
\* how many are consumed.
Call(H(_)) ==
    With(H(Self(<<HTTPError, HTTPError>>)), LAMBDA d :
      IF Len(d.net) = 2 THEN Commit(d)
      ELSE \E r1 \in RemoteOutcomes :
             With(H(Self(<<r1, HTTPError>>)), LAMBDA s1 :
               IF Len(s1.net) = 1 THEN Commit(s1)
               ELSE \E r2 \in RemoteOutcomes : Commit(H(Self(<<r1, r2>>)))))

\* Vatsim(local_mode=lm)
Construct(lm) ==
    /\ phase = "off"
    /\ Call(LAMBDA s : VatsimInit(s, lm))

\* vsim.get_flights_by_dep(icao)
QueryDep(icao) ==
    /\ phase = "ready"
    /\ Call(LAMBDA s : GetFlightsByDep(s, icao))

\* vsim.get_flights_by_dest(icao)
QueryDest(icao) ==
    /\ phase = "ready"
    /\ Call(LAMBDA s : GetFlightsByDest(s, icao))

\* The process ends (it is stopped, or an exception ended it); the files stay.
Exit ==
    /\ phase \in {"ready", "crashed"}
    /\ phase' = "off"
    /\ vatsim_data' = EmptyDict
    /\ local_mode' = FALSE
    /\ fail_safe_ran' = FALSE
    /\ calls' = <<>>
    /\ ret' = NoneV
    /\ UNCHANGED <<now, cache_file, cache_dir, test_file, frames>>

\* Time passes.
Tick ==
    /\ now < MaxTime
    /\ now' = now + ClockStep
    /\ UNCHANGED <<phase, vatsim_data, local_mode, fail_safe_ran, cache_file,
                   cache_dir, test_file, calls, ret, frames>>

Next ==
    \/ \E lm \in BOOLEAN : Construct(lm)
    \/ \E icao \in Icaos : QueryDep(icao)
    \/ \E icao \in Icaos : QueryDest(icao)
    \/ Exit
    \/ Tick

Spec == Init /\ [][Next]_vars

(***************************************************************************)
(* The handler over every small dataset: the state right after             *)
(* construction from a cache file that holds a fresh dataset, and then     *)
(* the two directional queries.                                            *)
(***************************************************************************)
RECURSIVE SeqsUpTo(_)
\* the pilots lists of exactly n flights of Traffic
SeqsUpTo(n) ==
    IF n = 0 THEN {<<>>}
    ELSE {Append(p, Traffic[i]) : p \in SeqsUpTo(n - 1), i \in 1..Len(Traffic)}

SmallPilotLists == UNION {SeqsUpTo(n) : n \in 0..MaxPilots}

InitQuery ==
    /\ now = 0
    /\ frames = 0
    /\ cache_dir = TRUE
    /\ test_file = FileOf(JsonDump(BundledDataset))
    /\ \E p \in SmallPilotLists :
         With(VatsimInit(
                [vatsim_data |-> EmptyDict, local_mode |-> FALSE,
                 fail_safe_ran |-> FALSE,
                 cache |-> FileOf(JsonDump(Dataset(strftime(0), ReloadMinutes, p))),
                 calls |-> <<>>, raised |-> "none",
                 net |-> <<HTTPError, HTTPError>>, ret |-> NoneV], FALSE),
              LAMBDA s :
                /\ vatsim_data = s.vatsim_data
                /\ local_mode = s.local_mode
                /\ fail_safe_ran = s.fail_safe_ran
                /\ cache_file = s.cache
                /\ calls = s.calls
                /\ ret = NoneV
                /\ phase = "ready")

NextQuery ==
    \/ \E icao \in Icaos : QueryDep(icao)
    \/ \E icao \in Icaos : QueryDest(icao)

SpecQuery == InitQuery /\ [][NextQuery]_vars

(***************************************************************************)
(* main(): the prompt.  An input is a sequence of characters.              *)
(***************************************************************************)
\* the frames of <module> and main() under the first dialog()
MainFrames == 2
\* sys.getrecursionlimit() of CPython: a call that would make the stack
\* deeper raises RecursionError
RecursionLimit == 1000

LowerCase == {"e", "g", "l", "d", "f"}
UpperCase == {"E", "G", "L", "D", "F"}
Digits == {"1"}
\* str.upper, one character
UpperChar(c) ==
    CASE c = "e" -> "E" [] c = "g" -> "G" [] c = "l" -> "L"
      [] c = "d" -> "D" [] c = "f" -> "F" [] OTHER -> c
\* str.upper
upper(chars) == [i \in DOMAIN chars |-> UpperChar(chars[i])]
\* str.isalnum: every character is a letter or a digit, and there is one
isalnum(chars) ==
    /\ chars # <<>>
    /\ \A i \in DOMAIN chars : chars[i] \in LowerCase \cup UpperCase \cup Digits
RECURSIVE Text(_)
\* the string of a sequence of characters
Text(chars) == IF chars = <<>> THEN "" ELSE Head(chars) \o Text(Tail(chars))

\* what the user types at the prompt
Inputs ==
    {<<"e", "g", "l", "l">>, <<"E", "G", "L", "L">>, <<"e", "d", "d", "f">>,
     <<"e", "g", "1", "1">>,
     <<"e", "g", "l">>, <<"e", "g", "-", "l">>, <<"e", "g", "l", "l", "l">>, <<>>}

\* user_icao.isalnum() and len(user_icao) == 4
Accepted(user_icao) == isalnum(user_icao) /\ Len(user_icao) = 4

RECURSIVE AddRows(_, _, _, _)
\* for f in flights: table.add_row([f['callsign'], f[key]])
AddRows(self, flights, i, key) ==
    IF self.raised # "none" \/ i > Len(flights) THEN self
    ELSE IF ~Subscript(flights[i], "callsign").ok
    THEN Raise(self, Subscript(flights[i], "callsign").exc)
    ELSE IF ~Subscript(flights[i], key).ok
    THEN Raise(self, Subscript(flights[i], key).exc)
    ELSE AddRows(Log(self, [ev |-> "add_row", key |-> key]), flights, i + 1, key)

\* dialog(), the branch of an accepted input (main.py lines 44 to 85)
DialogBody(self, user_icao) ==
    With(GetFlightsByDep(
           Log(Log(self, [ev |-> "input", text |-> user_icao]),
               [ev |-> "print", msg |-> "Loading traffic"]),
           Text(upper(user_icao))), LAMBDA dep :
      IF dep.raised # "none" THEN dep
      ELSE With(GetFlightsByDest(dep, Text(upper(user_icao))), LAMBDA arr :
             IF arr.raised # "none" THEN arr
             ELSE With(AddRows(AddRows(arr, dep.ret.e, 1, "planned_destairport"),
                               arr.ret.e, 1, "planned_depairport"), LAMBDA t :
                    IF t.raised # "none" THEN t
                    ELSE [Log(t, Ev("render")) EXCEPT !.ret = NoneV])))

\* the variables after dialog() left the object as self: every dialog() on
\* the stack returns, and the loop of main() calls the next one
DialogCommit(self) ==
    /\ vatsim_data' = self.vatsim_data
    /\ local_mode' = self.local_mode
    /\ fail_safe_ran' = self.fail_safe_ran
    /\ cache_file' = self.cache
    /\ calls' = self.calls
    /\ ret' = NoneV
    /\ phase' = IF self.raised = "none" THEN "ready" ELSE "crashed"
    /\ frames' = IF self.raised = "none" THEN 1 ELSE frames
    /\ UNCHANGED <<now, cache_dir, test_file>>

\* the object about to run dialog(), with the answers known so far
DialogSelf(known) == Self(known \o [i \in 1..(4 - Len(known)) |-> HTTPError])

\* One dialog() over an accepted input.  Its two queries make at most four
\* requests; the answers are chosen as in Call.
DialogCall(H(_)) ==
    With(H(DialogSelf(<<>>)), LAMBDA d :
      IF Len(d.net) = 4 THEN DialogCommit(d)
      ELSE \E r1 \in RemoteOutcomes :
        With(H(DialogSelf(<<r1>>)), LAMBDA s1 :
          IF Len(s1.net) >= 3 THEN DialogCommit(s1)
          ELSE \E r2 \in RemoteOutcomes :
            With(H(DialogSelf(<<r1, r2>>)), LAMBDA s2 :
              IF Len(s2.net) >= 2 THEN DialogCommit(s2)
              ELSE \E r3 \in RemoteOutcomes :
                With(H(DialogSelf(<<r1, r2, r3>>)), LAMBDA s3 :
                  IF Len(s3.net) >= 1 THEN DialogCommit(s3)
                  ELSE \E r4 \in RemoteOutcomes :
                         DialogCommit(H(DialogSelf(<<r1, r2, r3, r4>>)))))))

\* dialog() with an input that passes the test
DialogAccept(user_icao) ==
    /\ phase = "ready" /\ frames >= 1
    /\ Accepted(user_icao)
    /\ DialogCall(LAMBDA s : DialogBody(s, user_icao))

\* dialog() with an input that fails the test: the message, then dialog()
\* again, one frame deeper
DialogReject(user_icao) ==
    /\ phase = "ready" /\ frames >= 1
    /\ ~Accepted(user_icao)
    /\ IF MainFrames + frames + 1 > RecursionLimit
       THEN /\ phase' = "crashed"
            /\ calls' = <<[ev |-> "input", text |-> user_icao],
                          [ev |-> "raise", exc |-> "RecursionError"]>>
            /\ UNCHANGED frames
       ELSE /\ phase' = "ready"
            /\ calls' = <<[ev |-> "input", text |-> user_icao],
                          [ev |-> "print", msg |-> "Icao must be alphanumeric and 4 characters long."],
                          [ev |-> "dialog"]>>
            /\ frames' = frames + 1
    /\ ret' = NoneV
    /\ UNCHANGED <<now, vatsim_data, local_mode, fail_safe_ran, cache_file,
                   cache_dir, test_file>>

\* main() at its first prompt: the handler was constructed by Vatsim(), at
\* one of the times, with no cache file, and nothing was raised
MainStarted(times) ==
    /\ now \in times
    /\ frames = 1
    /\ cache_dir = TRUE
    /\ test_file = FileOf(JsonDump(BundledDataset))
    /\ \E r1, r2 \in RemoteOutcomes :
         With(VatsimInit(
                [vatsim_data |-> EmptyDict, local_mode |-> FALSE,
                 fail_safe_ran |-> FALSE, cache |-> NoFile,
                 calls |-> <<>>, raised |-> "none",
                 net |-> <<r1, r2>>, ret |-> NoneV], FALSE),
              LAMBDA s :
                /\ s.raised = "none"
                /\ vatsim_data = s.vatsim_data
                /\ local_mode = s.local_mode
                /\ fail_safe_ran = s.fail_safe_ran
                /\ cache_file = s.cache
                /\ calls = s.calls
                /\ ret = NoneV
                /\ phase = "ready")

\* The prompt at any time of start, with at most MaxPrompts dialog() frames.
InitDialog == MainStarted(Times)

NextDialog ==
    \/ \E user_icao \in Inputs : DialogAccept(user_icao)
    \/ \E user_icao \in Inputs : frames < MaxPrompts /\ DialogReject(user_icao)

SpecDialog == InitDialog /\ [][NextDialog]_vars

\* The prompt of a main() started at time 0, with every depth of dialog()
\* the interpreter allows.
InitReprompt == MainStarted({0})

NextReprompt ==
    \/ \E user_icao \in Inputs : DialogAccept(user_icao)
    \/ \E user_icao \in Inputs : DialogReject(user_icao)

SpecReprompt == InitReprompt /\ [][NextReprompt]_vars

(***************************************************************************)
(* Reading the record of the last handler.                                 *)
(***************************************************************************)
IsEv(i, name) == i \in DOMAIN calls /\ calls[i].ev = name
IsFetch(i) == IsEv(i, "__fetch_new_data") \/ IsEv(i, "__fetch_local_data")
IsLocalFetchOf(i, path) == IsEv(i, "__fetch_local_data") /\ calls[i].path = path
FailedRequest(i) == IsEv(i, "urlopen") /\ calls[i].kind \in {"HTTPError", "URLError"}

(***************************************************************************)
(* C1.  A staleness check on a loaded dataset D at time T starts a fetch   *)
(* if and only if T minus D.general.update, in minutes, is strictly        *)
(* greater than D.general.reload + 0.5; otherwise no fetch is started.     *)
(* (Doubled, in seconds: 2 (T - update) > 60 (2 reload + 1).)              *)
(***************************************************************************)
CheckIsStale(i) ==
    2 * (calls[i].time_now - strptime(calls[i].general.m.update.s).val)
      > SecondsPerMinute * (2 * calls[i].general.m.reload.n + 1)

CheckAtThreshold(i) ==
    2 * (calls[i].time_now - strptime(calls[i].general.m.update.s).val)
      = SecondsPerMinute * (2 * calls[i].general.m.reload.n + 1)

C1_FetchIffOutdated ==
    \A i \in DOMAIN calls :
      (IsEv(i, "__is_data_outdated") /\ ~IsEv(i + 1, "raise"))
        => /\ IsFetch(i + 1) <=> CheckIsStale(i)
           /\ ~CheckIsStale(i) => IsEv(i + 1, "logging.debug")

\* a check exactly at the threshold, which fetched nothing
C1_Witness ==
    \E j \in DOMAIN calls :
      /\ IsEv(j, "__is_data_outdated") /\ ~IsEv(j + 1, "raise")
      /\ CheckAtThreshold(j) /\ IsEv(j + 1, "logging.debug")

(***************************************************************************)
(* C2.  Once the fail safe has run, every later fetch of the handler reads *)
(* the bundled test data and no request to the endpoint is made again:     *)
(* after it, within the call that ran it and in every later call, there is *)
(* no request, every local fetch is of test_data_path, and an outdated     *)
(* check is followed by such a fetch.                                      *)
(***************************************************************************)
\* event i comes after the fail safe ran (in this call or an earlier one)
AfterFailSafe(i) ==
    fail_safe_ran /\ \A k \in DOMAIN calls : IsEv(k, "__fail_safe") => k < i

C2_LocalOnlyAfterFailSafe ==
    \A i \in DOMAIN calls :
      AfterFailSafe(i)
        => /\ ~IsEv(i, "urlopen")
           /\ ~IsEv(i, "__fetch_new_data")
           /\ IsEv(i, "__fetch_local_data") => calls[i].path = test_data_path
           /\ (IsEv(i, "__is_data_outdated") /\ ~IsEv(i + 1, "raise")
               /\ CheckIsStale(i)) => IsLocalFetchOf(i + 1, test_data_path)

\* a later call of a handler whose fail safe ran earlier finds the data
\* outdated and fetches the test data
C2_Witness ==
    /\ fail_safe_ran
    /\ \A k \in DOMAIN calls : ~IsEv(k, "__fail_safe")
    /\ \E i \in DOMAIN calls :
         IsEv(i, "__is_data_outdated") /\ IsLocalFetchOf(i + 1, test_data_path)

(***************************************************************************)
(* C3.  No error is fatal: whatever the remote fetch does (success, HTTP   *)
(* error, connection error) and whatever the local files are (readable,    *)
(* missing, malformed), construction and every query end without an        *)
(* unhandled exception.  Stated for the calls whose requests all failed    *)
(* with an HTTP or connection error, with no cache file on disk.           *)
(***************************************************************************)
C3_NoUnhandledException ==
    (/\ ~cache_file.exists
     /\ \A i \in DOMAIN calls : IsEv(i, "urlopen") => FailedRequest(i))
      => phase # "crashed"

(***************************************************************************)
(* C4.  A remote fetch that fails with an HTTP or connection error raises  *)
(* nothing: the fail safe runs, the mode is local, the bundled test data   *)
(* is fetched, and when that file is readable the dataset in memory is the *)
(* bundled one and the query that met the failure returns the flights of   *)
(* the bundled dataset that match.                                         *)
(***************************************************************************)
TestFileReadable == test_file.exists /\ JsonLoad(test_file.text).ok

\* flight f has a flight plan whose field (departure, arrival) is icao
Matches(f, field, icao) ==
    f.m.flight_plan.t = "dict" /\ f.m.flight_plan.m[field] = StrV(icao)

\* the flights of a dataset that match, in the order of its pilots list
Expected(data, field, icao) ==
    ListV(SelectSeq(data.m.pilots.e, LAMBDA f : Matches(f, field, icao)))

C4_FailedFetchFallsBack ==
    (\E i \in DOMAIN calls : FailedRequest(i))
      => /\ \A i \in DOMAIN calls :
              FailedRequest(i) => /\ IsEv(i + 1, "logging.error")
                                  /\ IsEv(i + 2, "__fail_safe")
                                  /\ IsLocalFetchOf(i + 3, test_data_path)
         /\ \A i \in DOMAIN calls :
              IsEv(i, "raise") => calls[i].exc \notin {"HTTPError", "URLError"}
         /\ local_mode
         /\ TestFileReadable
              => /\ vatsim_data = JsonLoad(test_file.text).val
                 /\ phase = "ready"
                 /\ IsEv(1, "get_flights_by_dep")
                      => ret = Expected(JsonLoad(test_file.text).val,
                                        "departure", calls[1].icao)
                 /\ IsEv(1, "get_flights_by_dest")
                      => ret = Expected(JsonLoad(test_file.text).val,
                                        "arrival", calls[1].icao)

\* a query met a connection error and returned a flight of the bundled data
C4_Witness ==
    /\ IsEv(1, "get_flights_by_dep")
    /\ \E i \in DOMAIN calls : IsEv(i, "urlopen") /\ calls[i].kind = "URLError"
    /\ TestFileReadable
    /\ phase = "ready"
    /\ ret.e # <<>>

(***************************************************************************)
(* C5.  A local fetch, of the cache file or of the bundled test data, that *)
(* fails with file-not-found or malformed JSON leaves the dataset in       *)
(* memory, the cache file and the mode as they were, and is not followed   *)
(* by a write of the cache.                                                *)
(***************************************************************************)
LocalFetchFails(path) ==
    \/ ~FileAt(Self(<<>>), path).exists
    \/ ~JsonLoad(FileAt(Self(<<>>), path).text).ok

C5_FailedLocalFetchFrame ==
    /\ \A path \in {cached_data_path, test_data_path} :
         LocalFetchFails(path)
           => [FetchLocalData(Self(<<>>), path) EXCEPT !.calls = <<>>] = Self(<<>>)
    /\ \A i \in DOMAIN calls :
         (IsEv(i, "open") /\ calls[i].mode = "r" /\ IsEv(i + 1, "logging.error"))
           => ~IsEv(i + 2, "__cache_data") /\ ~IsEv(i + 2, "open")

\* a local fetch failed in the last call, and the dataset fetched before it
\* is still in memory
C5_Witness ==
    /\ \E i \in DOMAIN calls :
         IsEv(i, "open") /\ calls[i].mode = "r" /\ IsEv(i + 1, "logging.error")
    /\ LocalFetchFails(test_data_path)
    /\ vatsim_data # EmptyDict
    /\ phase = "ready"

(***************************************************************************)
(* C6.  get_flights_by_dep(X) (get_flights_by_dest(X)) returns exactly the *)
(* flights of the pilots list, in its order, that have a flight plan whose *)
(* departure (arrival) is X; a flight without a flight plan never appears, *)
(* and the result is a list, empty when nothing matches.                   *)
(***************************************************************************)
C6_QueryIsOrderedFilter ==
    /\ (phase = "ready" /\ IsEv(1, "get_flights_by_dep"))
         => ret = Expected(vatsim_data, "departure", calls[1].icao)
    /\ (phase = "ready" /\ IsEv(1, "get_flights_by_dest"))
         => ret = Expected(vatsim_data, "arrival", calls[1].icao)
    /\ (phase = "ready" /\ (IsEv(1, "get_flights_by_dep") \/ IsEv(1, "get_flights_by_dest")))
         => /\ ret.t = "list"
            /\ \A j \in DOMAIN ret.e : ret.e[j].m.flight_plan # NoneV

\* two different flights returned from a list that also holds a flight
\* without a flight plan
C6_Witness ==
    /\ phase = "ready" /\ IsEv(1, "get_flights_by_dep")
    /\ Len(ret.e) = 2 /\ ret.e[1] # ret.e[2]
    /\ \E i \in DOMAIN vatsim_data.m.pilots.e :
         vatsim_data.m.pilots.e[i].m.flight_plan = NoneV

(***************************************************************************)
(* C7.  With the dataset the same across get_flights_by_dep(X) and         *)
(* get_flights_by_dest(X), a flight is in both results if and only if its  *)
(* departure and its arrival are both X; the results share no other        *)
(* flight, and neither lists a flight more often than the pilots list.     *)
(***************************************************************************)
InSeq(x, seq) == \E j \in DOMAIN seq : seq[j] = x
Occurrences(x, seq) == Cardinality({j \in DOMAIN seq : seq[j] = x})
SelfLoop(f, icao) == Matches(f, "departure", icao) /\ Matches(f, "arrival", icao)

\* a step from the state get_flights_by_dep(X) left to the state
\* get_flights_by_dest(X) leaves, with the dataset unchanged
DepThenDest ==
    /\ phase = "ready" /\ IsEv(1, "get_flights_by_dep")
    /\ phase' = "ready" /\ calls'[1].ev = "get_flights_by_dest"
    /\ calls'[1].icao = calls[1].icao
    /\ vatsim_data' = vatsim_data

BothIffSelfLoop(pilots, icao, departures, arrivals) ==
    /\ \A i \in DOMAIN pilots :
         (InSeq(pilots[i], departures) /\ InSeq(pilots[i], arrivals))
           <=> SelfLoop(pilots[i], icao)
    /\ \A j \in DOMAIN departures :
         InSeq(departures[j], arrivals) => SelfLoop(departures[j], icao)
    /\ \A i \in DOMAIN pilots :
         /\ Occurrences(pilots[i], departures) <= Occurrences(pilots[i], pilots)
         /\ Occurrences(pilots[i], arrivals) <= Occurrences(pilots[i], pilots)

C7_BothIffSelfLoop ==
    [][DepThenDest
         => BothIffSelfLoop(vatsim_data.m.pilots.e, calls[1].icao, ret.e, ret'.e)]_vars

\* the arrivals at EGLL hold a flight from EGLL to EGLL and one from
\* elsewhere
C7_Witness ==
    /\ phase = "ready" /\ IsEv(1, "get_flights_by_dest")
    /\ \E j, k \in DOMAIN ret.e :
         /\ SelfLoop(ret.e[j], calls[1].icao)
         /\ ~Matches(ret.e[k], "departure", calls[1].icao)

(***************************************************************************)
(* C8.  Construction: when the cache file exists it is fetched, with no    *)
(* check of its age and no request, whatever local_mode is; when it does   *)
(* not, the endpoint is asked unless local_mode is set, and then the test  *)
(* data is fetched; after that the staleness check runs exactly once.      *)
(***************************************************************************)
\* the positions of the staleness checks in a record of calls
Checks(c) == {i \in DOMAIN c : c[i].ev = "__is_data_outdated"}
\* the positions of the fetches and requests before position k
FetchesBefore(c, k) ==
    {i \in DOMAIN c : i < k /\ c[i].ev \in {"__fetch_new_data", "__fetch_local_data",
                                             "urlopen"}}
\* where the bootstrap ends: at the staleness check, or at the end
BootstrapEnd(c) == IF Checks(c) = {} THEN Len(c) + 1
                   ELSE CHOOSE k \in Checks(c) : \A j \in Checks(c) : k <= j
Raised(c) == \E i \in DOMAIN c : c[i].ev = "raise"

StartupOrder(cached, c) ==
    /\ c[1].ev = "__init__" /\ c[2].ev = "__is_data_cached"
    /\ cached
         => /\ c[3].ev = "__fetch_local_data" /\ c[3].path = cached_data_path
            /\ FetchesBefore(c, BootstrapEnd(c)) = {3}
    /\ (~cached /\ c[1].local_mode)
         => /\ c[3].ev = "__fetch_local_data" /\ c[3].path = test_data_path
            /\ FetchesBefore(c, BootstrapEnd(c)) = {3}
    /\ (~cached /\ ~c[1].local_mode)
         => c[3].ev = "__fetch_new_data" /\ c[4].ev = "urlopen"
    /\ Cardinality(Checks(c)) <= 1
    /\ (Checks(c) = {}) => (Raised(c) /\ phase' = "crashed")

C8_StartupOrder ==
    [][(phase = "off" /\ phase' # "off") => StartupOrder(cache_file.exists, calls')]_vars

\* a handler constructed in local mode over a cache file: the cache file
\* was fetched, then the check ran
C8_Witness ==
    /\ phase = "ready" /\ IsEv(1, "__init__") /\ calls[1].local_mode
    /\ IsLocalFetchOf(3, cached_data_path)
    /\ Cardinality(Checks(calls)) = 1

(***************************************************************************)
(* C9.  The cache file is written after every successful fetch, so that    *)
(* between calls a dataset in memory is what the cache file holds.         *)
(***************************************************************************)
C9_CacheHoldsDataset ==
    vatsim_data # EmptyDict => cache_file = FileOf(JsonDump(vatsim_data))

\* As amended: the write follows every successful fetch and succeeds when
\* the directory of the cache file exists; when it does not, the write
\* fails, the failure is logged, and there is no cache file.
C9_CacheHoldsDatasetIfWritable ==
    /\ vatsim_data # EmptyDict
         => IF cache_dir THEN cache_file = FileOf(JsonDump(vatsim_data))
            ELSE ~cache_file.exists
    /\ \A i \in DOMAIN calls :
         IsEv(i, "__cache_data")
           => IF cache_dir THEN IsEv(i + 1, "open") /\ calls[i + 1].mode = "w"
              ELSE IsEv(i + 1, "logging.error")

\* a dataset fetched from the endpoint is in memory and in the cache file
C9_Witness ==
    /\ vatsim_data # EmptyDict
    /\ cache_dir
    /\ \E i \in DOMAIN calls : IsEv(i, "urlopen") /\ calls[i].kind = "ok"
    /\ \E i \in DOMAIN calls : IsEv(i, "__cache_data")

(***************************************************************************)
(* C10.  Round trip: __cache_data followed by __fetch_local_data of the    *)
(* cache file leaves in memory a dataset identical to the original, also   *)
(* when it is a new handler, with nothing in memory, that loads the file.  *)
(***************************************************************************)
C10_RoundTrip ==
    /\ FetchLocalData(CacheData(Self(<<>>)), cached_data_path).vatsim_data
         = vatsim_data
    /\ cache_dir
         => FetchLocalData([CacheData(Self(<<>>)) EXCEPT !.vatsim_data = EmptyDict],
                           cached_data_path).vatsim_data = vatsim_data

\* the handler holds a dataset it loaded from the cache file and wrote back,
\* with a flight that has a flight plan and one that has none
C10_Witness ==
    /\ phase = "ready"
    /\ \E i \in DOMAIN calls : IsLocalFetchOf(i, cached_data_path) /\ IsEv(i + 2, "__cache_data")
    /\ \E i, j \in DOMAIN vatsim_data.m.pilots.e :
         /\ vatsim_data.m.pilots.e[i].m.flight_plan = NoneV
         /\ vatsim_data.m.pilots.e[j].m.flight_plan # NoneV

(***************************************************************************)
(* C11.  The prompt accepts an input if and only if it is alphanumeric and *)
(* exactly 4 characters long; for an accepted input one departure query    *)
(* and one arrival query are run, both with the input in upper case; for   *)
(* a rejected input none is run.                                           *)
(***************************************************************************)
QueriesOf(name) == {i \in DOMAIN calls : calls[i].ev = name}
AlphanumericOfFour(chars) == isalnum(chars) /\ Len(chars) = 4

C11_PromptAcceptsAndQueries ==
    IsEv(1, "input") =>
      IF AlphanumericOfFour(calls[1].text)
      THEN /\ Cardinality(QueriesOf("get_flights_by_dep")) = 1
           /\ Cardinality(QueriesOf("get_flights_by_dest")) = 1
           /\ \A i \in QueriesOf("get_flights_by_dep") \cup QueriesOf("get_flights_by_dest") :
                calls[i].icao = Text(upper(calls[1].text))
           /\ \A i \in QueriesOf("get_flights_by_dep"), j \in QueriesOf("get_flights_by_dest") :
                i < j
      ELSE QueriesOf("get_flights_by_dep") \cup QueriesOf("get_flights_by_dest") = {}

(***************************************************************************)
(* C12.  A rejected input is answered by prompting again and is never a    *)
(* failure: after any number of rejected inputs in a row the process is    *)
(* prompting, no query was run for them, and the dataset, the mode and the *)
(* cache file are as they were.                                            *)
(***************************************************************************)
\* a step of the prompt in which the input typed is not accepted
RejectedInput ==
    /\ phase = "ready"
    /\ Len(calls') >= 1 /\ calls'[1].ev = "input"
    /\ ~AlphanumericOfFour(calls'[1].text)

C12_RejectedInputReprompts ==
    [][RejectedInput
         => /\ phase' = "ready"
            /\ \A i \in DOMAIN calls' :
                 calls'[i].ev \notin {"get_flights_by_dep", "get_flights_by_dest",
                                      "get_flights", "__is_data_outdated", "raise"}
            /\ UNCHANGED <<vatsim_data, local_mode, cache_file>>]_vars

(***************************************************************************)
(* C13.  The mode changes only from remote to local, and only in a call    *)
(* that handles a failed request: a call that began in local mode ends in  *)
(* local mode, and a call ends in another mode than it began in exactly    *)
(* when one of its requests failed and the fail safe ran.                  *)
(***************************************************************************)
\* a step in which the handler runs a call (construction or a query)
HandlerCall == phase' # "off" /\ now' = now /\ calls' # <<>>
\* the mode the call begins in: the one Vatsim() is given, or the one held
ModeAtCall == IF phase = "off" THEN calls'[1].local_mode ELSE local_mode
\* one of the requests of the call failed and the fail safe ran after it
FailSafeInCall ==
    \E i \in DOMAIN calls' :
      /\ calls'[i].ev = "urlopen" /\ calls'[i].kind \in {"HTTPError", "URLError"}
      /\ \E j \in DOMAIN calls' : j > i /\ calls'[j].ev = "__fail_safe"

C13_ModeOnlyRemoteToLocal ==
    [][HandlerCall
         => /\ ModeAtCall => local_mode'
            /\ (local_mode' # ModeAtCall) <=> FailSafeInCall]_vars

\* a query of a handler constructed in remote mode left it in local mode
C13_Witness ==
    /\ phase = "ready" /\ local_mode /\ fail_safe_ran
    /\ IsEv(1, "get_flights_by_dest")
    /\ \E i \in DOMAIN calls : FailedRequest(i)

(***************************************************************************)
(* C14.  A staleness check on a fresh dataset is a no-op: a query that     *)
(* finds the dataset fresh leaves the dataset, the mode and the cache file *)
(* as they were, makes no request and opens no file, and each of its       *)
(* checks only reports that the data is up to date.                        *)
(***************************************************************************)
\* the dataset in memory is not older than reload + 0.5 minutes
DatasetIsFresh ==
    /\ vatsim_data # EmptyDict
    /\ 2 * (now - strptime(vatsim_data.m.general.m.update.s).val)
         <= SecondsPerMinute * (2 * vatsim_data.m.general.m.reload.n + 1)
\* a step in which a constructed handler runs a query
QueryCall == phase = "ready" /\ phase' # "off" /\ now' = now

C14_FreshCheckIsNoOp ==
    [][(QueryCall /\ DatasetIsFresh)
         => /\ UNCHANGED <<vatsim_data, local_mode, cache_file>>
            /\ phase' = "ready"
            /\ \A i \in DOMAIN calls' :
                 /\ calls'[i].ev \notin {"urlopen", "open", "__fetch_new_data",
                                         "__fetch_local_data", "__cache_data",
                                         "__fail_safe"}
                 /\ calls'[i].ev = "__is_data_outdated"
                      => calls'[i + 1].ev = "logging.debug"]_vars

\* a query of a handler in local mode whose checks found the data fresh
C14_Witness ==
    /\ phase = "ready" /\ local_mode /\ DatasetIsFresh
    /\ IsEv(1, "get_flights_by_dep")
    /\ \A i \in DOMAIN calls : IsEv(i, "__is_data_outdated") => IsEv(i + 1, "logging.debug")

(***************************************************************************)
(* C15.  A handler constructed in local mode never contacts the endpoint:  *)
(* its bootstrap reads the cache file or the test data, every outdated     *)
(* check fetches test_data_path, and no call of it makes a request, reads  *)
(* the cache file later, or runs the fail safe.                            *)
(***************************************************************************)
\* a call of a handler that was constructed in local mode: the construction
\* itself, or a call of a handler in local mode whose fail safe never ran
LocalHandlerCall == HandlerCall /\ ModeAtCall /\ (phase = "off" \/ ~fail_safe_ran)
\* check i of the record c found the dataset outdated
StaleIn(c, i) ==
    /\ c[i].ev = "__is_data_outdated" /\ c[i + 1].ev # "raise"
    /\ 2 * (c[i].time_now - strptime(c[i].general.m.update.s).val)
         > SecondsPerMinute * (2 * c[i].general.m.reload.n + 1)

LocalHandlerCalls(cached, c) ==
    \A i \in DOMAIN c :
      /\ c[i].ev \notin {"urlopen", "__fetch_new_data", "__fail_safe"}
      /\ c[i].ev = "__fetch_local_data"
           => c[i].path = (IF cached /\ i = 3 THEN cached_data_path
                           ELSE test_data_path)
      /\ StaleIn(c, i)
           => c[i + 1].ev = "__fetch_local_data" /\ c[i + 1].path = test_data_path

C15_LocalHandlerNeverRemote ==
    [][LocalHandlerCall
         => /\ LocalHandlerCalls(phase = "off" /\ cache_file.exists, calls')
            /\ local_mode' /\ ~fail_safe_ran']_vars

\* a query of a handler constructed in local mode found the data outdated
\* and fetched the test data
C15_Witness ==
    /\ phase = "ready" /\ local_mode /\ ~fail_safe_ran
    /\ IsEv(1, "get_flights_by_dep")
    /\ \E i \in DOMAIN calls :
         IsEv(i, "__is_data_outdated") /\ IsLocalFetchOf(i + 1, test_data_path)

(***************************************************************************)
(* C16.  The dataset in memory is empty until the first successful fetch,  *)
(* and after a successful fetch it has the general record, with update and *)
(* reload, and the pilots list, whatever well-formed JSON was fetched.     *)
(***************************************************************************)
HasBothFields(data) ==
    /\ Subscript(data, "general").ok
    /\ Subscript(Subscript(data, "general").val, "update").ok
    /\ Subscript(Subscript(data, "general").val, "reload").ok
    /\ Subscript(data, "pilots").ok
    /\ Subscript(data, "pilots").val.t = "list"

C16_DatasetHasBothFields ==
    /\ phase = "off" => vatsim_data = EmptyDict
    /\ (\A i \in DOMAIN calls : ~IsEv(i, "__cache_data")) /\ IsEv(1, "__init__")
         => vatsim_data = EmptyDict
    /\ (\E i \in DOMAIN calls : IsEv(i, "__cache_data")) => HasBothFields(vatsim_data)

(***************************************************************************)
(* C17.  In the lifetime of one handler at most one request fails: a call  *)
(* holds at most one failed request, that request is the last request of   *)
(* the call and leaves the handler in local mode with its fail safe run,   *)
(* and a handler whose fail safe has run makes no request in any call.     *)
(***************************************************************************)
\* the positions of the failed requests in the record c
FailedIn(c) ==
    {i \in DOMAIN c : c[i].ev = "urlopen" /\ c[i].kind \in {"HTTPError", "URLError"}}
RequestsIn(c) == {i \in DOMAIN c : c[i].ev = "urlopen"}

C17_AtMostOneFailedRequest ==
    [][HandlerCall
         => /\ Cardinality(FailedIn(calls')) <= 1
            /\ \A i \in FailedIn(calls') : \A j \in RequestsIn(calls') : j <= i
            /\ FailedIn(calls') # {} => fail_safe_ran' /\ local_mode'
            /\ (phase = "ready" /\ fail_safe_ran) => RequestsIn(calls') = {}
            /\ (phase = "off" \/ ~fail_safe_ran)
                 => (fail_safe_ran' <=> FailedIn(calls') # {})]_vars

\* a query of a handler whose one request failed in an earlier call found
\* the data outdated and made no request
C17_Witness ==
    /\ phase = "ready" /\ fail_safe_ran
    /\ IsEv(1, "get_flights_by_dest")
    /\ RequestsIn(calls) = {}
    /\ \E i \in DOMAIN calls : StaleIn(calls, i)

(***************************************************************************)
(* C18.  A directional query that returns has run the staleness check      *)
(* exactly twice, first itself and then inside get_flights, before the     *)
(* scan; its fetches are the ones these checks started, none, one or two;  *)
(* and its result is the scan of the dataset the second check left.        *)
(***************************************************************************)
\* the checks of the last call that started a fetch
FetchingChecks == {i \in Checks(calls) : IsFetch(i + 1)}

QueryChecksTwice(field) ==
    /\ Cardinality(Checks(calls)) = 2
    /\ IsEv(2, "__is_data_outdated")
    /\ \E g \in DOMAIN calls :
         /\ g > 2 /\ IsEv(g, "get_flights") /\ IsEv(g + 1, "__is_data_outdated")
         /\ \A h \in DOMAIN calls : IsEv(h, "get_flights") => h = g
    /\ \A i \in DOMAIN calls :
         /\ IsEv(i, "__fetch_new_data") => i - 1 \in Checks(calls)
         /\ IsEv(i, "__fetch_local_data")
              => (i - 1 \in Checks(calls) \/ IsEv(i - 1, "__fail_safe"))
    /\ Cardinality(FetchingChecks) \in 0..2
    /\ ret = Expected(vatsim_data, field, calls[1].icao)

C18_QueryChecksTwice ==
    /\ (phase = "ready" /\ IsEv(1, "get_flights_by_dep"))
         => QueryChecksTwice("departure")
    /\ (phase = "ready" /\ IsEv(1, "get_flights_by_dest"))
         => QueryChecksTwice("arrival")

\* a query whose two checks both fetched, with flights in its result
C18_Witness ==
    /\ phase = "ready" /\ IsEv(1, "get_flights_by_dep")
    /\ Cardinality(FetchingChecks) = 2
    /\ ret.e # <<>>

(***************************************************************************)
(* C19.  A successful fetch of the bundled test data overwrites the cache  *)
(* file with it: after the fail safe, or an outdated check in local mode,  *)
(* has loaded the bundled file, the cache file holds the bundled dataset,  *)
(* and a later start that finds this cache file loads the bundled data     *)
(* from it before any request.                                             *)
(***************************************************************************)
\* the last call fetched test_data_path and the bundled dataset is in memory
BundledLoaded(c, data) ==
    /\ data = BundledDataset
    /\ \E i \in DOMAIN c : c[i].ev = "__fetch_local_data" /\ c[i].path = test_data_path
\* a construction that finds the bundled dataset in the cache file fetches
\* the cache file, makes no request before its check, and checks the
\* bundled dataset
StartsFromBundled(c) ==
    /\ c[3].ev = "__fetch_local_data" /\ c[3].path = cached_data_path
    /\ Checks(c) # {}
    /\ \A i \in RequestsIn(c) : i > BootstrapEnd(c)
    /\ c[BootstrapEnd(c)].general = BundledDataset.m.general

C19_BundledOverwritesCache ==
    [][/\ BundledLoaded(calls', vatsim_data')
            => cache_file' = FileOf(JsonDump(BundledDataset))
       /\ (phase = "off" /\ phase' # "off"
           /\ cache_file = FileOf(JsonDump(BundledDataset)))
            => StartsFromBundled(calls')]_vars

\* As amended: the cache file is overwritten when the directory of the
\* cache file exists; when it does not, the write fails and there is no
\* cache file for a later start to find.
C19_BundledOverwritesCacheIfWritable ==
    [][/\ BundledLoaded(calls', vatsim_data')
            => IF cache_dir THEN cache_file' = FileOf(JsonDump(BundledDataset))
               ELSE ~cache_file'.exists
       /\ (phase = "off" /\ phase' # "off"
           /\ cache_file = FileOf(JsonDump(BundledDataset)))
            => StartsFromBundled(calls')]_vars

\* a handler constructed in remote mode over the cache file an earlier
\* process left: it loaded the bundled data from it, then made a request
C19_Witness ==
    /\ IsEv(1, "__init__") /\ ~calls[1].local_mode
    /\ IsLocalFetchOf(3, cached_data_path)
    /\ Checks(calls) # {}
    /\ calls[BootstrapEnd(calls)].general = BundledDataset.m.general
    /\ RequestsIn(calls) # {}
====
